---- MODULE Spec2Model ----
(***************************************************************************)
(* A model of memory-mcp's ChromaDB -> SQLite migration                    *)
(* (scripts/migrate_chroma_to_sqlite.py) and of the embedding function it  *)
(* depends on (memory_mcp/embedding.py).                                   *)
(*                                                                         *)
(* Weights are in hundredths: 95 is 0.95, 170 is 1.7, -30 is -0.3.  A      *)
(* float is [nan, v]; NaN compares false with everything, as in Python.    *)
(***************************************************************************)
EXTENDS Integers, Sequences, FiniteSets, TLC

\* ------------------------------------------------------------------ bounds
\* number of records of the small memory collections
NMem == 2
\* number of runs of the script (processes) in one behaviour
MaxRuns == 2
\* number of calls made on embedding functions in SpecEmb
MaxCalls == 4
MaxDim == 2

\* ------------------------------------------------------- program constants
batch_size == 32

VARIABLES
    source,                \* the ChromaDB directory (never written)
    pc,                    \* position of the running process in migrate
    run,                   \* number of the current process
    exitCode,              \* exit status of the process, -1 while it runs
    exitWhy,               \* why the process ended
    gates,                 \* gates passed by the current process, in order
    dirMade,               \* dest_path.parent exists
    disk,                  \* the destination database as committed
    disk0,                 \* the destination database when the process started
    conn,                  \* the connection's view (uncommitted rows included)
    collection_names,
    memory_ids_in_dest,
    coactivation_entries,
    valid_records,
    idx,                   \* loop position in the current stage
    pending,               \* an embedding batch is written and not committed
    coa_inserted,
    ep_inserted,
    wrote,                 \* tables the process has executed an INSERT on
    commits,               \* stages the process has committed, in order
    failed,                \* memory ids whose insert raised in this process
    ep_failed,             \* episode ids whose insert raised in this process
    cache,                 \* E5EmbeddingFunction._model_cache
    loads,                 \* successful SentenceTransformer constructions
    insts,                 \* E5EmbeddingFunction instances: their _model_name
    calls,                 \* calls made so far (SpecEmb)
    out,                   \* what the last call on an instance did (SpecEmb)
    dest_init,             \* the destination database before the first process
    completed,             \* an earlier process ran to "Migration complete!"
    environ,               \* os.environ of the process: the two offline flags
    batch_log,             \* the batches the process has encoded, in order
    codec                  \* a vector, its blob and the blob decoded (SpecCodec)

vars == <<source, pc, run, exitCode, exitWhy, gates, dirMade, disk, disk0, conn,
          collection_names, memory_ids_in_dest, coactivation_entries,
          valid_records, idx, pending, coa_inserted, ep_inserted, wrote,
          commits, failed, ep_failed, cache, loads, insts, calls, out,
          dest_init, completed, environ, batch_log, codec>>

\* ------------------------------------------------------------------ values
Min(a, b) == IF a < b THEN a ELSE b

F(v) == [nan |-> FALSE, v |-> v]
NaN == [nan |-> TRUE, v |-> 0]

\* Python's float comparison: any comparison with NaN is false
Lt(x, y) == ~x.nan /\ ~y.nan /\ x.v < y.v

\* Python's min(a, b) and max(a, b): the first argument unless the second
\* is strictly smaller (larger)
PyMin(a, b) == IF Lt(b, a) THEN b ELSE a
PyMax(a, b) == IF Lt(a, b) THEN b ELSE a

\* metadata values as _read_chroma_collection leaves them
Absent == [kind |-> "absent", v |-> 0]
IntVal(n) == [kind |-> "int", v |-> n]
BadStr == [kind |-> "str", v |-> 0]

\* a text value of the metadata; NoKey marks a key the metadata lacks
NoKey == "<no key>"

\* a lookup that ignores its default
GetNoDefault(val, default) == val

\* meta.get(key, default) of a text value
GetOr(val, default) == IF val = NoKey THEN default ELSE val

\* int(meta.get(key, default)): a non-numeric string raises ValueError
IntOf(val, default) ==
    CASE val.kind = "absent" -> [ok |-> TRUE, v |-> default]
      [] val.kind = "int" -> [ok |-> TRUE, v |-> val.v]
      [] OTHER -> [ok |-> FALSE, v |-> 0]

\* raw coactivation weights, as json.loads yields them
RawNum(n) == [k |-> "num", v |-> n]
RawNaN == [k |-> "nan", v |-> 0]
RawStr == [k |-> "str", v |-> 0]
RawNull == [k |-> "null", v |-> 0]
\* an integer too large for a float, such as a 1 followed by 400 zeros
RawHuge == [k |-> "huge", v |-> 0]
RawWeights == {RawNum(-30), RawNum(0), RawNum(95), RawNum(100), RawNum(170),
               RawNaN, RawStr, RawNull}

\* float(weight): ValueError on a non-numeric string, TypeError on None
FloatOf(raw) ==
    CASE raw.k = "num" -> [ok |-> TRUE, f |-> F(raw.v)]
      [] raw.k = "nan" -> [ok |-> TRUE, f |-> NaN]
      [] OTHER -> [ok |-> FALSE, f |-> NaN]

\* float(weight) of an integer beyond the range of a float raises
\* OverflowError, which is neither a TypeError nor a ValueError
Overflows(raw) == raw.k = "huge"

\* a clamp without its upper bound
ClampNoUpper(w) == PyMax(F(0), w)

\* w = max(0.0, min(1.0, w))
Clamp(w) == PyMax(F(0), PyMin(F(100), w))


\* ------------------------------------------------------------------ source
\* an id no collection holds, and the id of the record of a second
\* non-episode collection
Ghost == NMem + 2
OtherId == NMem + 1

NoCoact == [kind |-> "absent", entries |-> <<>>]
Garbage == [kind |-> "garbage", entries |-> <<>>]
NotDict == [kind |-> "list", entries |-> <<>>]
Mapping(es) == [kind |-> "dict", entries |-> es]
Entry(t, raw) == [target |-> t, raw |-> raw]

MemRec(id, imp, co) ==
    [id |-> id, document |-> id, importance |-> imp, coactivation |-> co,
     emotion |-> NoKey]
EpRec(id, imp) == [id |-> id, document |-> id, importance |-> imp]
Plain(id) == MemRec(id, Absent, NoCoact)

OneEpisode == <<EpRec(1, Absent)>>

Source(names, mem, eps) ==
    [exists |-> TRUE, collections |-> names,
     data |-> [n \in {"memA", "episodes"} |-> IF n = "memA" THEN mem ELSE eps]]

\* every record may fail to convert and may name one target
StructureSources ==
    { Source(<<"memA", "episodes">>,
             [i \in 1..NMem |->
                 MemRec(i, f[i][1],
                        IF f[i][2] = i THEN NoCoact
                        ELSE Mapping(<<Entry(IF f[i][2] = 0 THEN Ghost ELSE f[i][2],
                                             RawNum(95))>>))],
             OneEpisode)
      : f \in [1..NMem -> {Absent, IntVal(4), BadStr} \X (0..NMem)] }

\* the first record carries a mapping of one or two entries of any weight
Targets1 == (2..NMem) \cup {Ghost}
Mappings1 ==
    {Garbage, NotDict}
    \cup {Mapping(<<Entry(t, w)>>) : t \in Targets1, w \in RawWeights}
    \cup {Mapping(<<Entry(tw[1], tw[3]), Entry(tw[2], tw[4])>>) :
             tw \in {x \in Targets1 \X Targets1 \X RawWeights \X RawWeights :
                        x[1] < x[2]}}
WeightSources ==
    { Source(<<"memA", "episodes">>,
             [i \in 1..NMem |->
                 IF i = 1 THEN MemRec(1, Absent, m)
                 ELSE IF i = 2 THEN MemRec(2, imp2, NoCoact) ELSE Plain(i)],
             OneEpisode)
      : m \in Mappings1, imp2 \in {Absent, BadStr} }

\* more records than one embedding batch holds
BigSource ==
    Source(<<"memA", "episodes">>,
           [i \in 1..(batch_size + 1) |->
               IF i = 1 THEN MemRec(1, Absent, Mapping(<<Entry(2, RawNum(95))>>))
               ELSE Plain(i)],
           OneEpisode)

\* the collections the source lists, and the readable ones among them
Layouts == { <<>>, <<"memA">>, <<"episodes">>, <<"episodes", "memA">>,
             <<"memB", "memA", "episodes">> }
LayoutSources ==
    { [exists |-> TRUE, collections |-> names,
       data |-> [n \in have |->
                   CASE n = "memA" ->
                          <<MemRec(1, Absent, Mapping(<<Entry(2, RawNum(95))>>)),
                            Plain(2)>>
                     [] n = "memB" -> <<Plain(OtherId)>>
                     [] OTHER -> <<EpRec(1, e[1]), EpRec(2, e[2])>>]]
      : names \in Layouts,
        have \in {{"memA", "memB", "episodes"}, {"episodes"}},
        e \in {Absent, IntVal(5), BadStr} \X {Absent, IntVal(5), BadStr} }

\* two rows of the source carry the same id, each with a weight for the
\* pair (1, 2)
DuplicateSources ==
    { Source(<<"memA", "episodes">>,
             <<MemRec(1, Absent, Mapping(<<Entry(2, w[1])>>)),
               MemRec(1, Absent, Mapping(<<Entry(2, w[2])>>)),
               Plain(2)>>,
             OneEpisode)
      : w \in {RawNum(95), RawNum(30), RawStr} \X {RawNum(95), RawNum(30), RawStr} }

\* the first record's mapping holds an integer weight beyond the range of
\* a float, alone or after an entry that coerces
HugeSources ==
    { Source(<<"memA", "episodes">>,
             [i \in 1..NMem |-> IF i = 1 THEN MemRec(1, Absent, m) ELSE Plain(i)],
             OneEpisode)
      : m \in {Mapping(<<Entry(2, RawHuge)>>),
               Mapping(<<Entry(2, RawNum(95)), Entry(Ghost, RawHuge)>>)} }

\* the first two records carry, or lack, an importance and an emotion
DefaultSources ==
    { Source(<<"memA", "episodes">>,
             [i \in 1..NMem |->
                 IF i <= 2
                 THEN [MemRec(i, f[i][1], NoCoact) EXCEPT !.emotion = f[i][2]]
                 ELSE Plain(i)],
             OneEpisode)
      : f \in [1..2 -> {Absent, IntVal(5)} \X {NoKey, "happy"}] }

NoSource == [exists |-> FALSE, collections |-> <<>>, data |-> [n \in {} |-> <<>>]]

Sources ==
    StructureSources \cup WeightSources \cup LayoutSources \cup DefaultSources
    \cup HugeSources
    \cup {BigSource, NoSource}

\* _read_chroma_collection: a collection without rows or without a METADATA
\* segment reads as the empty list
_read_chroma_collection(name) ==
    IF name \in DOMAIN source.data THEN source.data[name] ELSE <<>>

None == "<None>"

\* the last collection that is not "episodes"
LastNonEpisode(names) ==
    LET notEp == SelectSeq(names, LAMBDA n : n # "episodes")
    IN IF notEp = <<>> THEN None ELSE notEp[Len(notEp)]

\* next((n for n in collection_names if n != "episodes"), None)
FirstNonEpisode(names) ==
    LET notEp == SelectSeq(names, LAMBDA n : n # "episodes")
    IN IF notEp = <<>> THEN None ELSE Head(notEp)

memories_collection_name == FirstNonEpisode(collection_names)

\* if memories_collection_name: records = _read_chroma_collection(...)
RecordsOf(names) ==
    IF FirstNonEpisode(names) \in {None, ""} THEN <<>>
    ELSE _read_chroma_collection(FirstNonEpisode(names))

records == RecordsOf(collection_names)
ep_records == _read_chroma_collection("episodes")


Range(seq) == {seq[i] : i \in 1..Len(seq)}

\* ------------------------------------------------------------- destination
EmptyDb ==
    [exists |-> FALSE, schema |-> FALSE, memories |-> {}, embeddings |-> {},
     coactivation |-> {}, episodes |-> {}]

NoConn == [open |-> FALSE, db |-> EmptyDb]

\* CREATE TABLE IF NOT EXISTS ...: existing tables keep their rows
_ddl(db) == [db EXCEPT !.exists = TRUE, !.schema = TRUE]

MemIdsOf(db) == {r.id : r \in db.memories}
EmbIdsOf(db) == {r.memory_id : r \in db.embeddings}
EdgeKeysOf(db) == {<<r.source_id, r.target_id>> : r \in db.coactivation}
EpIdsOf(db) == {r.id : r \in db.episodes}

\* INSERT OR REPLACE INTO memories: the old row is deleted, and with it
\* (ON DELETE CASCADE) its embedding and its coactivation rows
InsertOrReplaceMemory(db, row) ==
    [db EXCEPT !.memories = {r \in @ : r.id # row.id} \cup {row},
               !.embeddings = {r \in @ : r.memory_id # row.id},
               !.coactivation =
                   {r \in @ : r.source_id # row.id /\ r.target_id # row.id}]

\* INSERT OR IGNORE INTO memories: a row whose id exists is left as it is
InsertOrIgnoreMemory(db, row) ==
    IF row.id \in MemIdsOf(db) THEN db
    ELSE [db EXCEPT !.memories = @ \cup {row}]

\* memory_id REFERENCES memories(id), with PRAGMA foreign_keys = ON
ForeignKeyOK(db, id) == id \in MemIdsOf(db)

\* INSERT OR IGNORE INTO embeddings: a foreign-key violation raises
InsertOrIgnoreEmbedding(db, row) ==
    IF ~ForeignKeyOK(db, row.memory_id) THEN [db |-> db, raised |-> TRUE]
    ELSE IF row.memory_id \in EmbIdsOf(db) THEN [db |-> db, raised |-> FALSE]
    ELSE [db |-> [db EXCEPT !.embeddings = @ \cup {row}], raised |-> FALSE]

\* CHECK(weight >= 0.0 AND weight <= 1.0), weight REAL NOT NULL (a NaN is
\* bound as NULL)
CheckWeight(w) == ~w.nan /\ 0 <= w.v /\ w.v <= 100

\* INSERT OR REPLACE INTO coactivation: a row of the same pair is replaced
InsertOrReplaceCoactivation(db, row) ==
    IF row.source_id \notin {r.id : r \in db.memories}
       \/ row.target_id \notin {r.id : r \in db.memories}
    THEN [db |-> db, raised |-> TRUE]
    ELSE IF row.weight.nan \/ row.weight.v < 0 \/ row.weight.v > 100
    THEN [db |-> db, raised |-> FALSE]
    ELSE [db |-> [db EXCEPT !.coactivation =
                     {r \in @ : <<r.source_id, r.target_id>> #
                                    <<row.source_id, row.target_id>>}
                     \cup {row}],
          raised |-> FALSE]

\* INSERT OR IGNORE INTO coactivation: a foreign-key violation raises; a
\* CHECK, NOT NULL or primary-key conflict skips the row silently
InsertOrIgnoreCoactivation(db, row) ==
    IF ~ForeignKeyOK(db, row.source_id) \/ ~ForeignKeyOK(db, row.target_id)
    THEN [db |-> db, raised |-> TRUE]
    ELSE IF ~CheckWeight(row.weight)
            \/ <<row.source_id, row.target_id>> \in EdgeKeysOf(db)
    THEN [db |-> db, raised |-> FALSE]
    ELSE [db |-> [db EXCEPT !.coactivation = @ \cup {row}], raised |-> FALSE]

\* INSERT OR IGNORE INTO episodes
InsertOrIgnoreEpisode(db, row) ==
    IF row.id \in EpIdsOf(db) THEN db
    ELSE [db EXCEPT !.episodes = @ \cup {row}]

\* ------------------------------------------------------- record transformer
\* the coactivation triples of one record: each entry is coerced and clamped
\* on its own, an entry that does not coerce is dropped
ExtractCoactivation(rec) ==
    IF rec.coactivation.kind # "dict" THEN <<>>
    ELSE LET ok == SelectSeq(rec.coactivation.entries,
                             LAMBDA e : FloatOf(e.raw).ok)
         IN [i \in 1..Len(ok) |->
                [source_id |-> rec.id, target_id |-> ok[i].target,
                 weight |-> Clamp(FloatOf(ok[i].raw).f)]]

\* the extraction has no handler for the OverflowError of float(weight):
\* neither except (TypeError, ValueError) nor except (json.JSONDecodeError,
\* TypeError) catches it
ExtractionRaises(rec) ==
    /\ rec.coactivation.kind = "dict"
    /\ \E e \in Range(rec.coactivation.entries) : Overflows(e.raw)

\* the VALUES tuple of the memories INSERT; int() may raise
MemoryRow(rec) ==
    LET imp == IntOf(rec.importance, 3)
    IN [ok |-> imp.ok,
        row |-> [id |-> rec.id, content |-> rec.document,
                 importance |-> imp.v,
                 emotion |-> GetOr(rec.emotion, "neutral")]]

\* the VALUES tuple of the episodes INSERT; int() may raise
EpisodeRow(rec) ==
    LET imp == IntOf(rec.importance, 3)
    IN [ok |-> imp.ok,
        row |-> [id |-> rec.id, summary |-> rec.document,
                 importance |-> imp.v]]

\* an admission test that lets every triple through
AdmitAll(e, ids) == TRUE

\* if source_id in memory_ids_in_dest and target_id in memory_ids_in_dest
Admitted(e, ids) == e.source_id \in ids /\ e.target_id \in ids

\* ----------------------------------------------------------- embedding.py
DefaultModel == "intfloat/multilingual-e5-base"
Names == {DefaultModel, "intfloat/multilingual-e5-small"}
Insts == {"ef", "store"}

\* os.environ restricted to the two flags; Unset marks a missing key
Unset == "<unset>"
OfflineFlags == {"HF_HUB_OFFLINE", "TRANSFORMERS_OFFLINE"}
NoEnv == [k \in OfflineFlags |-> Unset]
StartEnvs == [OfflineFlags -> {Unset, "0", "1"}]

\* os.environ.setdefault(key, value): a key that is set keeps its value
SetDefault(env, key, value) ==
    IF env[key] = Unset THEN [env EXCEPT ![key] = value] ELSE env

\* the top level of embedding.py
ImportEmbedding(env) ==
    SetDefault(SetDefault(env, "HF_HUB_OFFLINE", "1"), "TRANSFORMERS_OFFLINE", "1")

\* a membership test that never finds the name
NeverInCache(c, name) == FALSE

\* self._model_name in E5EmbeddingFunction._model_cache
InCache(c, name) == c[name] # 0

\* _load_model on an instance named name: lib says whether
\* sentence_transformers imports, weights whether the model is present locally
\* (local_files_only=True).  A cache entry holds the serial number of the load.
_load_model(c, l, name, lib, weights) ==
    IF InCache(c, name) THEN [cache |-> c, loads |-> l, raised |-> "none"]
    ELSE IF ~lib THEN [cache |-> c, loads |-> l, raised |-> "ImportError"]
    ELSE IF ~weights THEN [cache |-> c, loads |-> l, raised |-> "OSError"]
    ELSE [cache |-> [c EXCEPT ![name] = l[name] + 1],
          loads |-> [l EXCEPT ![name] = @ + 1], raised |-> "none"]

\* __call__ and encode_query prefix each text before encoding it
PassageVec(doc) == <<"passage", doc>>
QueryVec(doc) == <<"query", doc>>

\* ------------------------------------------------------- memory_mcp.vector
\* an IEEE-754 single-precision float as its three bit fields: 1 sign bit,
\* 8 exponent bits, 23 fraction bits
F32(s, e, m) == [sign |-> s, exp |-> e, mant |-> m]
PosZero == F32(0, 0, 0)
NegZero == F32(1, 0, 0)
Denormal == F32(0, 0, 1)
NaNPayload == F32(0, 255, 4194305)
MinusOneAndHalf == F32(1, 127, 4194304)
Patterns == {PosZero, NegZero, Denormal, NaNPayload, MinusOneAndHalf}
Vectors == UNION {[1..n -> Patterns] : n \in 0..MaxDim}

\* the four bytes of a float, least significant first
Float32Bytes(x) ==
    << x.mant % 256,
       (x.mant \div 256) % 256,
       (x.mant \div 65536) + 128 * (x.exp % 2),
       (x.exp \div 2) + 128 * x.sign >>

\* the float four little-endian bytes stand for
BytesFloat32(b) ==
    F32(b[4] \div 128,
        2 * (b[4] % 128) + (b[3] \div 128),
        65536 * (b[3] % 128) + 256 * b[2] + b[1])

RECURSIVE encode_vector(_)
\* encode_vector(vec): the floats' bytes, one float after the other
encode_vector(vec) ==
    IF vec = <<>> THEN <<>>
    ELSE Float32Bytes(Head(vec)) \o encode_vector(Tail(vec))

\* decode_vector(blob): one float for every four bytes
decode_vector(blob) ==
    [i \in 1..(Len(blob) \div 4) |->
        BytesFloat32(SubSeq(blob, 4 * i - 3, 4 * i))]

\* self._model.encode(prefixed, normalize_embeddings=True): the model's
\* output is a function of the prefixed text; two components stand for it
E5Encode(text) ==
    << F32(0, 126, 70000 * text[2]),
       F32(1, 0, IF text[1] = "passage" THEN 1 ELSE 2) >>

\* a blob whose floats are written most significant byte first
BigEndianBlob(rec) ==
    LET le == encode_vector(E5Encode(PassageVec(rec.document)))
    IN [i \in 1..Len(le) |-> le[4 * ((i - 1) \div 4) + 4 - ((i - 1) % 4)]]

\* batch_vecs = ef(batch_docs); vec_bytes = encode_vector(np.array(vec,
\* dtype=np.float32)) for the record's document
EmbeddingBlob(rec) == encode_vector(E5Encode(PassageVec(rec.document)))

NoCall ==
    [kind |-> "", inst |-> "", name |-> "", raised |-> "none", model |-> 0,
     local |-> FALSE, loaded |-> FALSE]


\* ------------------------------------------------------------------ migrate
\* input("Proceed with migration? [y/N] ").strip().lower()
Answers == { <<"y">>, <<"Y">>, <<" ", "y", " ">>, <<"n">>, <<>>,
             <<"y", "e", "s">> }

RECURSIVE LStrip(_)
LStrip(s) == IF s # <<>> /\ Head(s) = " " THEN LStrip(Tail(s)) ELSE s
RECURSIVE RStrip(_)
RStrip(s) ==
    IF s # <<>> /\ s[Len(s)] = " " THEN RStrip(SubSeq(s, 1, Len(s) - 1)) ELSE s
Strip(s) == RStrip(LStrip(s))
Lower(s) ==
    [i \in 1..Len(s) |->
        CASE s[i] = "Y" -> "y" [] s[i] = "N" -> "n" [] OTHER -> s[i]]

\* an order in which the destination is opened before the prompt
OpenBeforePrompt ==
    <<"numpy", "source", "open", "prompt", "load", "memories", "embed",
      "coact", "episodes", "close">>

\* an order in which the coactivation stage precedes the embedding stage
CoactBeforeEmbed ==
    <<"numpy", "source", "prompt", "load", "open", "memories", "coact",
      "embed", "episodes", "close">>

\* the order of migrate's steps
Stages ==
    <<"numpy", "source", "prompt", "load", "open", "memories", "embed",
      "coact", "episodes", "close">>

After(st) ==
    LET i == CHOOSE k \in 1..Len(Stages) : Stages[k] = st
    IN IF i = Len(Stages) THEN "done" ELSE Stages[i + 1]

\* if memories_collection_name: ... / if "episodes" in collection_names: ...
Skipped(st) ==
    \/ st \in {"memories", "embed", "coact"}
       /\ memories_collection_name \in {None, ""}
    \/ st = "episodes" /\ "episodes" \notin Range(collection_names)

RECURSIVE Enter(_)
Enter(st) == IF st # "done" /\ Skipped(st) THEN Enter(After(st)) ELSE st

\* range(0, total, batch_size) counts from 0; idx is the 1-based position
\* in the list a for loop goes through
FirstIdx(st) == IF st = "embed" THEN 0 ELSE 1

\* a process that always ends with status 0
ExitZero(why) == 0

\* sys.exit(1), sys.exit(0), an uncaught exception (status 1), an interrupt
ExitStatus(why) ==
    CASE why \in {"no_numpy", "no_source"} -> 1
      [] why = "declined" -> 0
      [] why \in {"no_model", "exception", "record_failure", "overflow"} -> 1
      [] why = "interrupt" -> 130
      [] OTHER -> 0

\* an insert whose exception is not caught
Uncaught(stage) == FALSE

\* except Exception as e: print(...); continue
Caught(stage) == TRUE

locals == <<memory_ids_in_dest, coactivation_entries, valid_records, idx,
            pending, coa_inserted, ep_inserted>>
hist == <<wrote, commits, failed, ep_failed>>
emb == <<cache, loads, insts, calls, out, dest_init, completed, environ,
         batch_log, codec>>

Exit(why) ==
    /\ pc' = "exited"
    /\ exitWhy' = why
    /\ exitCode' = ExitStatus(why)
    /\ conn' = NoConn

Pass(st, gate) ==
    /\ pc' = Enter(After(st))
    /\ gates' = Append(gates, gate)
    /\ UNCHANGED <<exitCode, exitWhy, conn>>

\* a destination that already holds a memory, with its embedding
PreDb ==
    [exists |-> TRUE, schema |-> TRUE,
     memories |-> {[id |-> 2, content |-> 2, importance |-> 1,
                    emotion |-> "sad"]},
     embeddings |-> {[memory_id |-> 2, vector |-> EmbeddingBlob(Plain(2))]},
     coactivation |-> {}, episodes |-> {}]

\* the state when the script starts: the source, the environment and the
\* vector at hand are drawn from the given sets
Start(srcs, envs, vecs) ==
    /\ source \in srcs
    /\ environ \in envs
    /\ codec \in {[step |-> "vec", vec |-> v, blob |-> <<>>, back |-> <<>>] :
                     v \in vecs}
    /\ batch_log = <<>>
    /\ disk \in (IF source \in StructureSources THEN {EmptyDb, PreDb}
                 ELSE {EmptyDb})
    /\ disk0 = disk
    /\ dirMade = disk.exists
    /\ pc = Stages[1]
    /\ run = 1
    /\ exitCode = -1
    /\ exitWhy = ""
    /\ gates = <<>>
    /\ conn = NoConn
    /\ collection_names = <<>>
    /\ memory_ids_in_dest = {}
    /\ coactivation_entries = <<>>
    /\ valid_records = <<>>
    /\ idx = 1
    /\ pending = FALSE
    /\ coa_inserted = 0
    /\ ep_inserted = 0
    /\ wrote = {}
    /\ commits = <<>>
    /\ failed = {}
    /\ ep_failed = {}
    /\ cache = [n \in Names |-> 0]
    /\ loads = [n \in Names |-> 0]
    /\ insts = [i \in Insts |-> None]
    /\ calls = 0
    /\ out = NoCall
    /\ dest_init = disk
    /\ completed = FALSE

Init == Start(Sources, {NoEnv}, {<<>>})

\* import numpy as np
CheckNumpy ==
    /\ pc = "numpy"
    /\ \E ok \in BOOLEAN :
          IF ok THEN Pass("numpy", "numpy")
          ELSE Exit("no_numpy") /\ UNCHANGED gates
    /\ UNCHANGED <<source, run, dirMade, disk, disk0, collection_names,
                   locals, hist, emb>>

\* chroma.sqlite3 must exist; the parent directory of dest is created and
\* the collections are listed
CheckSource ==
    /\ pc = "source"
    /\ IF source.exists
       THEN /\ Pass("source", "source")
            /\ dirMade' = TRUE
            /\ collection_names' = source.collections
       ELSE Exit("no_source") /\ UNCHANGED <<gates, dirMade, collection_names>>
    /\ UNCHANGED <<source, run, disk, disk0, locals, hist, emb>>

Prompt ==
    /\ pc = "prompt"
    /\ \E answer \in Answers :
          IF Lower(Strip(answer)) = <<"y">> THEN Pass("prompt", "confirm")
          ELSE Exit("declined") /\ UNCHANGED gates
    /\ UNCHANGED <<source, run, dirMade, disk, disk0, collection_names,
                   locals, hist, emb>>

\* from memory_mcp.embedding import E5EmbeddingFunction (the module's top
\* level runs); ef = E5EmbeddingFunction(config.embedding_model);
\* ef._load_model()
LoadModel ==
    /\ pc = "load"
    /\ \E lib \in BOOLEAN, weights \in BOOLEAN :
          LET r == _load_model(cache, loads, DefaultModel, lib, weights)
          IN /\ cache' = r.cache
             /\ loads' = r.loads
             /\ insts' = [insts EXCEPT !["ef"] = DefaultModel]
             /\ IF r.raised = "none" THEN Pass("load", "model")
                ELSE Exit("no_model") /\ UNCHANGED gates
    /\ environ' = ImportEmbedding(environ)
    /\ UNCHANGED <<source, run, dirMade, disk, disk0, collection_names,
                   locals, hist, calls, out, dest_init, completed, batch_log,
                   codec>>

\* sqlite3.connect(dest), the PRAGMAs and _ddl(conn), which commits
OpenDest ==
    /\ pc = "open"
    /\ conn' = [open |-> TRUE, db |-> _ddl(disk)]
    /\ disk' = _ddl(disk)
    /\ commits' = Append(commits, "schema")
    /\ memory_ids_in_dest' = {}
    /\ coactivation_entries' = <<>>
    /\ valid_records' = <<>>
    /\ idx' = FirstIdx(Enter(After("open")))
    /\ pc' = Enter(After("open"))
    /\ UNCHANGED <<source, run, exitCode, exitWhy, gates, dirMade, disk0,
                   collection_names, pending, coa_inserted, ep_inserted,
                   wrote, failed, ep_failed, emb>>

\* recording a memory only when the INSERT added a row (rowcount = 1)
OnlyWhenRowAdded(before, after) == after # before

\* memory_ids_in_dest.add(memory_id); valid_records.append(rec): whenever
\* the INSERT OR IGNORE did not raise, whether or not it added the row
Recorded(before, after) == TRUE

\* one pass of "for rec in records"
InsertMemory ==
    /\ pc = "memories"
    /\ idx <= Len(records)
    /\ LET rec == records[idx]
           conv == MemoryRow(rec)
       IN IF ExtractionRaises(rec)
          THEN /\ Exit("overflow")
               /\ UNCHANGED <<memory_ids_in_dest, valid_records,
                              coactivation_entries, wrote, idx, failed>>
          ELSE
          /\ coactivation_entries' =
                 coactivation_entries \o ExtractCoactivation(rec)
          /\ IF conv.ok
             THEN /\ conn' = [conn EXCEPT !.db = InsertOrIgnoreMemory(@, conv.row)]
                  /\ IF Recorded(conn.db, InsertOrIgnoreMemory(conn.db, conv.row))
                     THEN /\ memory_ids_in_dest' = memory_ids_in_dest \cup {rec.id}
                          /\ valid_records' = Append(valid_records, rec)
                     ELSE UNCHANGED <<memory_ids_in_dest, valid_records>>
                  /\ wrote' = wrote \cup {"memories"}
                  /\ idx' = idx + 1
                  /\ UNCHANGED <<pc, exitCode, exitWhy, failed>>
             ELSE /\ failed' = failed \cup {rec.id}
                  /\ UNCHANGED <<memory_ids_in_dest, valid_records, wrote>>
                  /\ IF Caught("memories")
                     THEN idx' = idx + 1 /\ UNCHANGED <<pc, exitCode, exitWhy, conn>>
                     ELSE Exit("record_failure") /\ UNCHANGED idx
    /\ UNCHANGED <<source, run, gates, dirMade, disk, disk0, collection_names,
                   pending, coa_inserted, ep_inserted, commits, ep_failed, emb>>

\* conn.commit() after the loop; i = 0 of the embedding loop
CommitMemories ==
    /\ pc = "memories"
    /\ idx > Len(records)
    /\ disk' = conn.db
    /\ commits' = Append(commits, "memories")
    /\ idx' = FirstIdx(Enter(After("memories")))
    /\ pc' = Enter(After("memories"))
    /\ UNCHANGED <<source, run, exitCode, exitWhy, gates, dirMade, disk0, conn,
                   collection_names, memory_ids_in_dest, coactivation_entries,
                   valid_records, pending, coa_inserted, ep_inserted, wrote,
                   failed, ep_failed, emb>>

\* a slice that is one record short
BatchDropsLast(recs, i) ==
    SubSeq(recs, i + 1, Min(i + batch_size, Len(recs)) - 1)

\* valid_records[i : i + batch_size]
BatchOf(recs, i) == SubSeq(recs, i + 1, Min(i + batch_size, Len(recs)))

RECURSIVE WriteBatch(_, _, _, _)
\* for rec, vec in zip(batch_recs, batch_vecs): ... INSERT OR IGNORE
WriteBatch(db, batch, ids, k) ==
    IF k > Len(batch) THEN [db |-> db, raised |-> FALSE]
    ELSE IF batch[k].id \notin ids THEN WriteBatch(db, batch, ids, k + 1)
    ELSE LET r == InsertOrIgnoreEmbedding(
                      db, [memory_id |-> batch[k].id,
                           vector |-> EmbeddingBlob(batch[k])])
         IN IF r.raised THEN r ELSE WriteBatch(r.db, batch, ids, k + 1)

\* one pass of "for i in range(0, total, batch_size)" up to its commit
EmbedBatch ==
    /\ pc = "embed"
    /\ ~pending
    /\ idx < Len(valid_records)
    /\ \E lib \in BOOLEAN, weights \in BOOLEAN :
          LET l == _load_model(cache, loads, insts["ef"], lib, weights)
              batch == BatchOf(valid_records, idx)
              w == WriteBatch(conn.db, batch, memory_ids_in_dest, 1)
          IN /\ cache' = l.cache
             /\ loads' = l.loads
             /\ IF l.raised # "none"
                THEN Exit("no_model") /\ UNCHANGED <<pending, wrote, batch_log>>
                ELSE IF w.raised
                THEN /\ Exit("exception")
                     /\ batch_log' = Append(batch_log, batch)
                     /\ UNCHANGED <<pending, wrote>>
                ELSE /\ conn' = [conn EXCEPT !.db = w.db]
                     /\ pending' = TRUE
                     /\ wrote' = wrote \cup {"embeddings"}
                     /\ batch_log' = Append(batch_log, batch)
                     /\ UNCHANGED <<pc, exitCode, exitWhy>>
    /\ UNCHANGED <<source, run, gates, dirMade, disk, disk0, collection_names,
                   memory_ids_in_dest, coactivation_entries, valid_records, idx,
                   coa_inserted, ep_inserted, commits, failed, ep_failed,
                   insts, calls, out, dest_init, completed, environ, codec>>

\* a loop that advances by one record
StepByOne(i) == i + 1

\* the next i of range(0, total, batch_size)
NextOffset(i) == i + batch_size

\* conn.commit() of the batch
EmbedCommit ==
    /\ pc = "embed"
    /\ pending
    /\ disk' = conn.db
    /\ commits' = Append(commits, "embeddings")
    /\ idx' = NextOffset(idx)
    /\ pending' = FALSE
    /\ UNCHANGED <<source, pc, run, exitCode, exitWhy, gates, dirMade, disk0,
                   conn, collection_names, memory_ids_in_dest,
                   coactivation_entries, valid_records, coa_inserted,
                   ep_inserted, wrote, failed, ep_failed, emb>>

\* the loop is over; coa_inserted = 0
EmbedFinish ==
    /\ pc = "embed"
    /\ ~pending
    /\ idx >= Len(valid_records)
    /\ idx' = FirstIdx(Enter(After("embed")))
    /\ coa_inserted' = 0
    /\ pc' = Enter(After("embed"))
    /\ UNCHANGED <<source, run, exitCode, exitWhy, gates, dirMade, disk, disk0,
                   conn, collection_names, memory_ids_in_dest,
                   coactivation_entries, valid_records, pending, ep_inserted,
                   hist, emb>>

\* one pass of "for source_id, target_id, weight in coactivation_entries"
InsertCoactivation ==
    /\ pc = "coact"
    /\ idx <= Len(coactivation_entries)
    /\ LET e == coactivation_entries[idx]
           r == InsertOrIgnoreCoactivation(conn.db, e)
       IN IF Admitted(e, memory_ids_in_dest)
          THEN /\ conn' = [conn EXCEPT !.db = r.db]
               /\ wrote' = wrote \cup {"coactivation"}
               /\ coa_inserted' = IF r.raised THEN coa_inserted
                                  ELSE coa_inserted + 1
          ELSE UNCHANGED <<conn, wrote, coa_inserted>>
    /\ idx' = idx + 1
    /\ UNCHANGED <<source, pc, run, exitCode, exitWhy, gates, dirMade, disk,
                   disk0, collection_names, memory_ids_in_dest,
                   coactivation_entries, valid_records, pending, ep_inserted,
                   commits, failed, ep_failed, emb>>

CommitCoactivation ==
    /\ pc = "coact"
    /\ idx > Len(coactivation_entries)
    /\ disk' = conn.db
    /\ commits' = Append(commits, "coactivation")
    /\ idx' = FirstIdx(Enter(After("coact")))
    /\ pc' = Enter(After("coact"))
    /\ UNCHANGED <<source, run, exitCode, exitWhy, gates, dirMade, disk0, conn,
                   collection_names, memory_ids_in_dest, coactivation_entries,
                   valid_records, pending, coa_inserted, ep_inserted, wrote,
                   failed, ep_failed, emb>>

\* one pass of "for rec in ep_records"
InsertEpisode ==
    /\ pc = "episodes"
    /\ idx <= Len(ep_records)
    /\ LET rec == ep_records[idx]
           conv == EpisodeRow(rec)
       IN IF conv.ok
          THEN /\ conn' = [conn EXCEPT !.db = InsertOrIgnoreEpisode(@, conv.row)]
               /\ ep_inserted' = ep_inserted + 1
               /\ wrote' = wrote \cup {"episodes"}
               /\ idx' = idx + 1
               /\ UNCHANGED <<pc, exitCode, exitWhy, ep_failed>>
          ELSE /\ ep_failed' = ep_failed \cup {rec.id}
               /\ UNCHANGED <<ep_inserted, wrote>>
               /\ IF Caught("episodes")
                  THEN idx' = idx + 1 /\ UNCHANGED <<pc, exitCode, exitWhy, conn>>
                  ELSE Exit("record_failure") /\ UNCHANGED idx
    /\ UNCHANGED <<source, run, gates, dirMade, disk, disk0, collection_names,
                   memory_ids_in_dest, coactivation_entries, valid_records,
                   pending, coa_inserted, commits, failed, emb>>

CommitEpisodes ==
    /\ pc = "episodes"
    /\ idx > Len(ep_records)
    /\ disk' = conn.db
    /\ commits' = Append(commits, "episodes")
    /\ idx' = FirstIdx(Enter(After("episodes")))
    /\ pc' = Enter(After("episodes"))
    /\ UNCHANGED <<source, run, exitCode, exitWhy, gates, dirMade, disk0, conn,
                   collection_names, memory_ids_in_dest, coactivation_entries,
                   valid_records, pending, coa_inserted, ep_inserted, wrote,
                   failed, ep_failed, emb>>

\* chroma_conn.close(); conn.close(); the function returns
Finish ==
    /\ pc = "close"
    /\ pc' = "done"
    /\ exitCode' = 0
    /\ exitWhy' = "done"
    /\ conn' = NoConn
    /\ UNCHANGED <<source, run, gates, dirMade, disk, disk0, collection_names,
                   locals, hist, emb>>

\* the process is killed after the confirmation: what is not committed is
\* rolled back, and the memory of the process is gone
Crash ==
    /\ pc \in {"load", "open", "memories", "embed", "coact", "episodes", "close"}
    /\ Exit("interrupt")
    /\ memory_ids_in_dest' = {}
    /\ coactivation_entries' = <<>>
    /\ valid_records' = <<>>
    /\ idx' = 1
    /\ pending' = FALSE
    /\ coa_inserted' = 0
    /\ ep_inserted' = 0
    /\ UNCHANGED <<source, run, gates, dirMade, disk, disk0, collection_names,
                   hist, emb>>

\* the script is started again on the same source and destination
StartRun ==
    /\ pc \in {"done", "exited"}
    /\ run < MaxRuns
    /\ run' = run + 1
    /\ pc' = Stages[1]
    /\ exitCode' = -1
    /\ exitWhy' = ""
    /\ gates' = <<>>
    /\ conn' = NoConn
    /\ disk0' = disk
    /\ collection_names' = <<>>
    /\ memory_ids_in_dest' = {}
    /\ coactivation_entries' = <<>>
    /\ valid_records' = <<>>
    /\ idx' = 1
    /\ pending' = FALSE
    /\ coa_inserted' = 0
    /\ ep_inserted' = 0
    /\ wrote' = {}
    /\ commits' = <<>>
    /\ failed' = {}
    /\ ep_failed' = {}
    /\ cache' = [n \in Names |-> 0]
    /\ loads' = [n \in Names |-> 0]
    /\ insts' = [i \in Insts |-> None]
    /\ completed' = (completed \/ pc = "done")
    /\ environ' = NoEnv
    /\ batch_log' = <<>>
    /\ UNCHANGED <<source, dirMade, disk, calls, out, dest_init, codec>>

Next ==
    \/ CheckNumpy
    \/ CheckSource
    \/ Prompt
    \/ LoadModel
    \/ OpenDest
    \/ InsertMemory
    \/ CommitMemories
    \/ EmbedBatch
    \/ EmbedCommit
    \/ EmbedFinish
    \/ InsertCoactivation
    \/ CommitCoactivation
    \/ InsertEpisode
    \/ CommitEpisodes
    \/ Finish
    \/ Crash
    \/ StartRun

Spec == Init /\ [][Next]_vars


\* ------------------------------------- the embedding function on its own
migrate_vars ==
    <<source, pc, run, exitCode, exitWhy, gates, dirMade, disk, disk0, conn,
      collection_names, locals, hist, dest_init, completed, environ,
      batch_log, codec>>

\* the module has been imported: its top level has run on the environment
\* the process was started with
InitEmb == Start({NoSource}, {ImportEmbedding(e) : e \in StartEnvs}, {<<>>})

\* E5EmbeddingFunction(model_name)
Construct ==
    /\ calls < MaxCalls
    /\ \E i \in Insts, n \in Names :
          /\ insts' = [insts EXCEPT ![i] = n]
          /\ out' = [kind |-> "init", inst |-> i, name |-> n,
                     raised |-> "none", model |-> 0, local |-> FALSE,
                     loaded |-> FALSE]
    /\ calls' = calls + 1
    /\ UNCHANGED <<cache, loads, migrate_vars>>

\* a call of kind "load" (_load_model), "passage" (__call__) or "query"
\* (encode_query) on instance i: the last two load the model first and
\* encode with self._model, the cache's entry for the instance's name.
\* out keeps whether the weights were present locally and whether a
\* SentenceTransformer was constructed
CallOn(i, kind, lib, weights) ==
    LET r == _load_model(cache, loads, insts[i], lib, weights)
    IN /\ cache' = r.cache
       /\ loads' = r.loads
       /\ out' = [kind |-> kind, inst |-> i, name |-> insts[i],
                  raised |-> r.raised,
                  model |-> IF kind = "load" \/ r.raised # "none" THEN 0
                            ELSE r.cache[insts[i]],
                  local |-> weights, loaded |-> r.loads # loads]

LoadModelCall ==
    /\ calls < MaxCalls
    /\ \E i \in {x \in Insts : insts[x] # None} :
          \E lib \in BOOLEAN, weights \in BOOLEAN :
             CallOn(i, "load", lib, weights)
    /\ calls' = calls + 1
    /\ UNCHANGED <<insts, migrate_vars>>

PassageCall ==
    /\ calls < MaxCalls
    /\ \E i \in {x \in Insts : insts[x] # None} :
          \E lib \in BOOLEAN, weights \in BOOLEAN :
             CallOn(i, "passage", lib, weights)
    /\ calls' = calls + 1
    /\ UNCHANGED <<insts, migrate_vars>>

QueryCall ==
    /\ calls < MaxCalls
    /\ \E i \in {x \in Insts : insts[x] # None} :
          \E lib \in BOOLEAN, weights \in BOOLEAN :
             CallOn(i, "query", lib, weights)
    /\ calls' = calls + 1
    /\ UNCHANGED <<insts, migrate_vars>>

NextEmb ==
    \/ Construct
    \/ LoadModelCall
    \/ PassageCall
    \/ QueryCall

SpecEmb == InitEmb /\ [][NextEmb]_vars

\* ---------------------------- the vector codec, beside a migration that
\* stores encoded vectors
CodecSource ==
    Source(<<"memA", "episodes">>,
           <<MemRec(1, Absent, Mapping(<<Entry(2, RawNum(95))>>)), Plain(2)>>,
           OneEpisode)

InitCodec == Start({CodecSource}, {NoEnv}, Vectors)

not_codec ==
    <<source, pc, run, exitCode, exitWhy, gates, dirMade, disk, disk0, conn,
      collection_names, locals, hist, cache, loads, insts, calls, out,
      dest_init, completed, environ, batch_log>>

\* blob = encode_vector(vec)
EncodeVector ==
    /\ codec.step = "vec"
    /\ codec' = [codec EXCEPT !.step = "blob", !.blob = encode_vector(codec.vec)]
    /\ UNCHANGED not_codec

\* back = decode_vector(blob)
DecodeVector ==
    /\ codec.step = "blob"
    /\ codec' = [codec EXCEPT !.step = "back", !.back = decode_vector(codec.blob)]
    /\ UNCHANGED not_codec

NextCodec ==
    \/ EncodeVector
    \/ DecodeVector
    \/ CheckNumpy
    \/ CheckSource
    \/ Prompt
    \/ LoadModel
    \/ OpenDest
    \/ InsertMemory
    \/ CommitMemories
    \/ EmbedBatch
    \/ EmbedCommit
    \/ EmbedFinish
    \/ InsertCoactivation
    \/ CommitCoactivation
    \/ InsertEpisode
    \/ CommitEpisodes
    \/ Finish
    \/ Crash
    \/ StartRun

SpecCodec == InitCodec /\ [][NextCodec]_vars

\* ----------------- the migration on sources of the coactivation stage,
\* those whose rows repeat an id included
InitEdges == Start(WeightSources \cup DuplicateSources, {NoEnv}, {<<>>})

SpecEdges == InitEdges /\ [][Next]_vars

\* ------------------------------------------------------------------ claims
\* what the source holds, whatever the running process has read so far
SrcRecords == RecordsOf(source.collections)
SrcEpisodes ==
    IF "episodes" \in Range(source.collections)
    THEN _read_chroma_collection("episodes") ELSE <<>>
SrcTriples ==
    UNION {Range(ExtractCoactivation(rec)) : rec \in Range(SrcRecords)}
HasMemories == FirstNonEpisode(source.collections) \notin {None, ""}

Dbs == {disk, conn.db}
NewRows(table) == (disk[table] \cup conn.db[table]) \ disk0[table]

\* C1: no coactivation row, committed or not, has a source_id or target_id
\* that is not the id of a memories row, and no row stored by a process names
\* a memory whose insert failed in that process.
C1_NoDanglingEdge ==
    /\ \A db \in Dbs : \A r \in db.coactivation :
          r.source_id \in MemIdsOf(db) /\ r.target_id \in MemIdsOf(db)
    /\ \A r \in NewRows("coactivation") :
          r.source_id \notin failed /\ r.target_id \notin failed

\* id1 was inserted, id2 failed, (id1, id2, w) was extracted, and the
\* coactivation stage is committed
C1_Witness ==
    /\ pc = "done"
    /\ 2 \in failed
    /\ 1 \in memory_ids_in_dest
    /\ \E e \in Range(coactivation_entries) :
          e.source_id = 1 /\ e.target_id = 2
    /\ "coactivation" \in Range(commits)

\* the stored value the specification gives for a numeric raw weight
Expected(w) == IF w < 0 THEN 0 ELSE IF w > 100 THEN 100 ELSE w

\* the raw weights the source gives for the ordered pair (s, t)
RawOf(s, t) ==
    {e.raw : e \in UNION {Range(rec.coactivation.entries) :
                             rec \in {x \in Range(SrcRecords) : x.id = s}}
       \cap {y \in UNION {Range(rec.coactivation.entries) :
                             rec \in Range(SrcRecords)} : y.target = t}}

\* C2: every stored weight lies in [0,1] and is the clamped raw weight of
\* its pair (0 below 0, 1 above 1, the weight itself in between), and a
\* completed run has stored every coercible weight whose two memories were
\* persisted.
C2_WeightsClamped ==
    /\ \A db \in Dbs : \A r \in db.coactivation :
          /\ CheckWeight(r.weight)
          /\ \E raw \in RawOf(r.source_id, r.target_id) :
                /\ FloatOf(raw).ok
                /\ raw.k = "num" => r.weight = F(Expected(raw.v))
    /\ pc = "done" =>
          \A rec \in Range(SrcRecords) :
             \A e \in Range(rec.coactivation.entries) :
                (/\ FloatOf(e.raw).ok
                 /\ rec.id \in memory_ids_in_dest
                 /\ e.target \in memory_ids_in_dest)
                => \E r \in disk.coactivation :
                      /\ r.source_id = rec.id /\ r.target_id = e.target
                      /\ e.raw.k = "num" => r.weight = F(Expected(e.raw.v))

\* a raw weight of 1.7 is stored as 1.0
C2_Witness ==
    /\ pc = "done"
    /\ \E r \in disk.coactivation :
          r.weight = F(100) /\ RawNum(170) \in RawOf(r.source_id, r.target_id)

\* C3: once a process has run to completion, a later process changes no
\* table of the destination: at every step the committed tables and the
\* connection's view hold exactly the rows the destination held when that
\* process started.
C3_SecondRunChangesNothing ==
    completed => disk = disk0 /\ (conn.open => conn.db = disk0)

\* a second process has run to completion on a destination with rows in
\* every table
C3_Witness ==
    /\ completed
    /\ pc = "done"
    /\ disk.memories # {} /\ disk.embeddings # {}
    /\ disk.coactivation # {} /\ disk.episodes # {}

\* what one uninterrupted run stores into destination d0
MigratedDb(d0) ==
    LET good == {rec \in Range(SrcRecords) : MemoryRow(rec).ok}
        ids == {rec.id : rec \in good}
        goodEp == {rec \in Range(SrcEpisodes) : EpisodeRow(rec).ok}
    IN [exists |-> TRUE, schema |-> TRUE,
        memories |-> d0.memories \cup
            {MemoryRow(rec).row : rec \in {x \in good : x.id \notin MemIdsOf(d0)}},
        embeddings |-> d0.embeddings \cup
            {[memory_id |-> rec.id, vector |-> EmbeddingBlob(rec)] :
                rec \in {x \in good : x.id \notin EmbIdsOf(d0)}},
        coactivation |-> d0.coactivation \cup
            {t \in SrcTriples :
                /\ t.source_id \in ids /\ t.target_id \in ids
                /\ <<t.source_id, t.target_id>> \notin EdgeKeysOf(d0)},
        episodes |-> d0.episodes \cup
            {EpisodeRow(rec).row : rec \in {x \in goodEp : x.id \notin EpIdsOf(d0)}}]

\* C4: a process never loses a committed row, and whatever processes were
\* interrupted before it, a process that runs to completion leaves the
\* destination holding exactly what one uninterrupted run stores.
C4_ResumeAfterCrash ==
    /\ \A t \in {"memories", "embeddings", "coactivation", "episodes"} :
          disk0[t] \subseteq disk[t]
    /\ pc = "done" => disk = MigratedDb(dest_init)

\* a process completes on a destination that an interrupted process left
\* with memories and without their embeddings
C4_Witness ==
    /\ pc = "done"
    /\ ~completed
    /\ run > 1
    /\ dest_init.memories = {}
    /\ disk0.memories # {}
    /\ disk0.embeddings = {}
    /\ disk.coactivation # {}

\* C5 as stated: each of the three fatal cases ends with a non-zero status.
C5_FatalExitsNonZero ==
    exitWhy \in {"no_source", "no_model", "declined"} => exitCode # 0

\* C5 as amended: a missing source and an unavailable embedding library or
\* model end the process with a non-zero status; a declined prompt ends it
\* with status 0.
C5_ExitStatus ==
    /\ exitWhy \in {"no_source", "no_model"} => exitCode # 0
    /\ exitWhy = "declined" => exitCode = 0

\* the model could not be loaded, after the user confirmed
C5_Witness ==
    /\ pc = "exited"
    /\ exitWhy = "no_model"
    /\ gates = <<"numpy", "source", "confirm">>

AllGates == <<"numpy", "source", "confirm", "model">>

\* C6: the destination is opened or written only after the four gates have
\* passed in order, and a process that stops at a gate leaves the
\* destination database as it found it.
C6_GatesBeforeDestination ==
    /\ Len(gates) <= Len(AllGates)
    /\ gates = SubSeq(AllGates, 1, Len(gates))
    /\ (conn.open \/ disk # disk0) => gates = AllGates
    /\ exitWhy \in {"no_numpy", "no_source", "declined", "no_model"}
          => disk = disk0 /\ ~conn.open

\* the user declined: the directory exists, the database does not
C6_Witness ==
    /\ exitWhy = "declined"
    /\ dirMade
    /\ ~disk.exists

C8_OneEmbeddingPerMemory ==
    /\ \A db \in Dbs : EmbIdsOf(db) \subseteq MemIdsOf(db)
    /\ \A r \in NewRows("embeddings") : r.memory_id \notin failed
    /\ pc = "done" =>
          \A id \in memory_ids_in_dest :
             Cardinality({r \in disk.embeddings : r.memory_id = id}) = 1

\* a run completed in which one memory was persisted and another failed
C8_Witness ==
    /\ pc = "done"
    /\ memory_ids_in_dest # {}
    /\ failed # {}

Count(seq, x) == Cardinality({i \in 1..Len(seq) : seq[i] = x})
Batches(n) == (n + batch_size - 1) \div batch_size
StageRank(st) ==
    CASE st = "schema" -> 0 [] st = "memories" -> 1 [] st = "embeddings" -> 2
      [] st = "coactivation" -> 3 [] OTHER -> 4

\* C9: the stages commit in the order schema, memories, embeddings,
\* coactivation, episodes; no memory is written before the schema is
\* created, no embedding before the memories are committed, no coactivation
\* row before every embedding batch is committed, and no episode before the
\* coactivation stage is committed.
C9_StageOrder ==
    /\ \A i \in 1..Len(commits) : \A j \in i..Len(commits) :
          StageRank(commits[i]) <= StageRank(commits[j])
    /\ wrote # {} => "schema" \in Range(commits)
    /\ "embeddings" \in wrote => "memories" \in Range(commits)
    /\ ("coactivation" \in wrote /\ pc # "exited") =>
          /\ ~pending
          /\ Count(commits, "embeddings") = Batches(Len(valid_records))
    /\ "coactivation" \in wrote =>
          {"memories", "embeddings"} \subseteq Range(commits)
    /\ ("episodes" \in wrote /\ HasMemories) =>
          "coactivation" \in Range(commits)

\* a run of two embedding batches that wrote all four tables
C9_Witness ==
    /\ pc = "done"
    /\ wrote = {"memories", "embeddings", "coactivation", "episodes"}
    /\ Count(commits, "embeddings") = 2


\* C10: a model name is loaded at most once in a process; its cache entry,
\* once added, is the model of that one load (never replaced, never removed);
\* a load that fails leaves the name out of the cache; and every encoding
\* uses the cached model of the first load.
C10_ModelLoadedOnce ==
    /\ \A n \in Names : loads[n] <= 1 /\ cache[n] = loads[n]
    /\ out.raised # "none" => cache[out.name] = 0
    /\ (out.kind \in {"passage", "query"} /\ out.raised = "none")
          => out.model = 1

\* two instances share a model name, the model was loaded once, and the
\* fourth call, an encode_query, used it
C10_Witness ==
    /\ insts["ef"] = DefaultModel
    /\ insts["store"] = DefaultModel
    /\ loads[DefaultModel] = 1
    /\ out.kind = "query" /\ out.inst = "store" /\ out.raised = "none"
    /\ calls >= 4

\* C11: at the moment a model is loaded both offline flags hold "1",
\* whatever values they had when the process started, and the load used
\* weights that were present locally (a load without them fails instead of
\* downloading).
C11_OfflineFlagsForced ==
    out.loaded =>
        /\ \A k \in OfflineFlags : environ[k] = "1"
        /\ out.local

\* the numbers of the three "Inserted N ..." lines the process prints
Inserted ==
    [memories |-> Cardinality(memory_ids_in_dest),
     coactivation |-> coa_inserted,
     episodes |-> ep_inserted]

\* C12: the number a completed process printed for memories, for
\* coactivation weights and for episodes is the number of rows of that kind
\* the process stored in the destination; a record whose insert failed or
\* was ignored is not counted.
C12_CountsAreRowsStored ==
    pc = "done" =>
        \A t \in {"memories", "coactivation", "episodes"} :
           Inserted[t] = Cardinality(NewRows(t))

C14_DefaultsApplied ==
    /\ \A db \in Dbs : \A r \in db.memories \ dest_init.memories :
          \E rec \in Range(SrcRecords) :
             /\ rec.id = r.id
             /\ rec.importance = Absent => r.importance = 3
             /\ rec.importance.kind = "int" => r.importance = rec.importance.v
             /\ rec.emotion = NoKey => r.emotion = "neutral"
             /\ rec.emotion # NoKey => r.emotion = rec.emotion
    /\ pc = "done" =>
          \A rec \in Range(SrcRecords) :
             MemoryRow(rec).ok => rec.id \in MemIdsOf(disk)

\* record 1 has neither key and record 2 has both; both are stored
C14_Witness ==
    /\ pc = "done"
    /\ Len(SrcRecords) >= 2
    /\ SrcRecords[1].importance = Absent /\ SrcRecords[1].emotion = NoKey
    /\ SrcRecords[2].importance = IntVal(5) /\ SrcRecords[2].emotion = "happy"
    /\ \E r \in disk.memories :
          r.id = 1 /\ r.importance = 3 /\ r.emotion = "neutral"
    /\ \E r \in disk.memories :
          r.id = 2 /\ r.importance = 5 /\ r.emotion = "happy"

\* the position of the first extracted triple of the pair (s, t)
FirstOf(s, t) ==
    CHOOSE i \in 1..Len(coactivation_entries) :
       /\ coactivation_entries[i].source_id = s
       /\ coactivation_entries[i].target_id = t
       /\ \A j \in 1..(i - 1) :
             ~(/\ coactivation_entries[j].source_id = s
               /\ coactivation_entries[j].target_id = t)

\* C15: when a run into an empty destination completes, the pairs of the
\* coactivation table are exactly the pairs of the extracted triples whose
\* source and target are both memories rows, and the one row of each pair
\* carries the clamped weight of the first triple extracted for the pair.
C15_EdgeAdmissionExact ==
    (pc = "done" /\ disk0.memories = {} /\ disk0.coactivation = {}) =>
        /\ EdgeKeysOf(disk) =
              {<<e.source_id, e.target_id>> :
                  e \in {x \in Range(coactivation_entries) :
                            /\ x.source_id \in MemIdsOf(disk)
                            /\ x.target_id \in MemIdsOf(disk)}}
        /\ Range(coactivation_entries) = SrcTriples
        /\ \A r \in disk.coactivation :
              /\ r.weight =
                    coactivation_entries[FirstOf(r.source_id, r.target_id)].weight
              /\ \A q \in disk.coactivation :
                    (q.source_id = r.source_id /\ q.target_id = r.target_id)
                    => q = r

\* the pair (1, 2) was extracted with 0.95 and then with 0.3, and the one
\* row stored is (1, 2, 0.95)
C15_Witness ==
    /\ pc = "done"
    /\ disk0.memories = {}
    /\ Len(coactivation_entries) = 2
    /\ coactivation_entries[1].weight = F(95)
    /\ coactivation_entries[2].weight = F(30)
    /\ disk.coactivation =
          {[source_id |-> 1, target_id |-> 2, weight |-> F(95)]}

RECURSIVE Flatten(_)
Flatten(seqs) == IF seqs = <<>> THEN <<>> ELSE Head(seqs) \o Flatten(Tail(seqs))

\* C16: the batches encoded so far are consecutive slices of the inserted
\* records, in order, each of at most 32 and every one but the last of
\* exactly 32, so that no record is in two batches and, once the loop is
\* over, every record is in one and ceil(n/32) batches were made; a batch
\* is encoded only when every batch before it is committed; and the
\* embeddings of every committed batch are in the database whatever happens
\* afterwards, an interruption included.
C16_BatchesPartition ==
    LET done_batches == Count(commits, "embeddings")
    IN /\ \A k \in 1..Len(batch_log) :
             /\ Len(batch_log[k]) \in 1..batch_size
             /\ k < Len(batch_log) => Len(batch_log[k]) = batch_size
       /\ Len(batch_log) \in {done_batches, done_batches + 1}
       /\ (pc # "exited" /\ Len(batch_log) = done_batches + 1) => pending
       /\ pc # "exited" =>
             /\ Len(Flatten(batch_log)) <= Len(valid_records)
             /\ Flatten(batch_log) =
                   SubSeq(valid_records, 1, Len(Flatten(batch_log)))
       /\ (pc \in {"coact", "episodes", "close", "done"} /\ HasMemories) =>
             /\ Flatten(batch_log) = valid_records
             /\ Len(batch_log) = Batches(Len(valid_records))
             /\ done_batches = Len(batch_log)
       /\ \A k \in 1..done_batches :
             {rec.id : rec \in Range(batch_log[k])} \subseteq EmbIdsOf(disk)

\* the process was interrupted while the second batch, of one record, was
\* written and not committed: the 32 embeddings of the first batch are there
C16_Witness ==
    /\ pc = "exited"
    /\ exitWhy = "interrupt"
    /\ Len(batch_log) = 2
    /\ Len(batch_log[2]) = 1
    /\ Count(commits, "embeddings") = 1
    /\ EmbIdsOf(disk) = 1..batch_size

\* C17: an entry of a coactivation mapping whose weight cannot be coerced to
\* a float removes only that entry: no process ends because of it, and once
\* the memory stage is over every record whose values convert is inserted
\* and every coercible entry of its mapping is extracted with its clamped
\* weight; a coactivation value that is not a mapping yields no triple and
\* its record is inserted all the same.
C17_MalformedEntryIsLocal ==
    /\ exitWhy # "overflow"
    /\ (pc \in {"embed", "coact", "episodes", "close", "done"} /\ HasMemories) =>
          \A rec \in Range(SrcRecords) :
             /\ MemoryRow(rec).ok => rec.id \in memory_ids_in_dest
             /\ \A t \in Range(coactivation_entries) :
                   t.source_id = rec.id => rec.coactivation.kind = "dict"
             /\ rec.coactivation.kind = "dict" =>
                   \A e \in Range(rec.coactivation.entries) :
                      FloatOf(e.raw).ok =>
                         \E t \in Range(coactivation_entries) :
                            /\ t.source_id = rec.id
                            /\ t.target_id = e.target
                            /\ e.raw.k = "num" => t.weight = F(Expected(e.raw.v))

\* the positions of the listing that do not hold "episodes", and the ids of
\* the records of a collection
NonEpisodeAt ==
    {i \in 1..Len(source.collections) : source.collections[i] # "episodes"}
IdsIn(name) ==
    IF name \in DOMAIN source.data
    THEN {rec.id : rec \in Range(source.data[name])} ELSE {}

\* C18: of the collections not named "episodes" only the first of the
\* listing is migrated: its records that convert are stored by a completed
\* run, and no id of a later one is in a row the migration adds to memories,
\* embeddings or coactivation; without such a collection the process writes
\* none of the three tables and still migrates the episodes.
C18_OnlyFirstCollection ==
    /\ \A i \in NonEpisodeAt, db \in Dbs :
          IF \A j \in NonEpisodeAt : i <= j
          THEN pc = "done" =>
                  \A rec \in Range(_read_chroma_collection(source.collections[i])) :
                     MemoryRow(rec).ok => rec.id \in MemIdsOf(disk)
          ELSE \A id \in IdsIn(source.collections[i]) :
                  /\ id \notin MemIdsOf(db) \ MemIdsOf(dest_init)
                  /\ id \notin EmbIdsOf(db) \ EmbIdsOf(dest_init)
                  /\ \A r \in db.coactivation :
                        r.source_id # id /\ r.target_id # id
    /\ NonEpisodeAt = {} =>
          /\ wrote \cap {"memories", "embeddings", "coactivation"} = {}
          /\ \A db \in Dbs, t \in {"memories", "embeddings", "coactivation"} :
                db[t] = {}
          /\ (pc = "done" /\ "episodes" \in Range(source.collections)) =>
                /\ "episodes" \in Range(commits)
                /\ \A rec \in Range(_read_chroma_collection("episodes")) :
                      EpisodeRow(rec).ok => rec.id \in EpIdsOf(disk)

\* the source lists memB before memA: a completed run has stored the record
\* of memB and none of memA
C18_Witness ==
    /\ pc = "done"
    /\ source.collections = <<"memB", "memA", "episodes">>
    /\ IdsIn("memA") = {1, 2}
    /\ MemIdsOf(disk) = {OtherId}
    /\ EmbIdsOf(disk) = {OtherId}
    /\ "episodes" \in Range(commits)

====
